---- MODULE Spec2Model ----
(***************************************************************************)
(* A model of the OpenAlex SDK client (src/src/index.ts): one call of a    *)
(* facade method of class OpenAlex against a remote collection.            *)
(*                                                                         *)
(* The class methods are in src/src/index.ts.  The helpers they import     *)
(* (utils/http GET, utils/helpers getCursorByPage and appendCursorToUrl,   *)
(* utils/works validateParameters, handleMultiplePages, handleAllPages,    *)
(* handleAllPagesInChunks and their per-entity twins) are modelled from    *)
(* the design document (spec.md sections 4.2, 4.3, 4.4 and 7).             *)
(*                                                                         *)
(* Results are the integers 1..n of the remote collection, in API order.   *)
(* The works-only abstract conversion (index.ts 220-229) changes a field   *)
(* of each result and neither their number nor their order; it is left out.*)
(***************************************************************************)
EXTENDS Integers, Sequences, FiniteSets, TLC

\* ------------------------------------------------------------------ bounds
\* Small collections hold 0..MaxSmall results.
MaxSmall == 3
\* page, startPage and endPage range over 1..MaxPage (or are undefined).
MaxPage == 3
\* The page sizes a caller asks for are 1..MaxPerPage.
MaxPerPage == 2
\* The chunk size of a chunked drain.
ChunkSize == 100

\* ------------------------------------------------------- program constants
\* perPage = 200 in drain mode (index.ts 204).
DrainPageSize == 200
StatusOK == 200
StatusNotFound == 404
\* A status that is neither 2xx nor 404 (one of retryHttpCodes, index.ts 63).
StatusServerError == 500

\* An optional number that was not given (undefined).
Absent == -1

Min(a, b) == IF a < b THEN a ELSE b

\* JavaScript truthiness of an optional number: undefined and 0 are falsy.
Truthy(x) == x # Absent /\ x # 0

ListFacades == {"works", "authors", "sources", "institutions", "topics"}
LookupFacades == {"work", "author", "source", "institution", "topic"}

\* ------------------------------------------------------------------ remote
\* Cursors: the start sentinel "*", a token issued by the remote (the number of
\* results it stands after, and the page size of the request that produced it),
\* or no cursor (next_cursor null).
Star == [kind |-> "star", off |-> 0, pp |-> 0]
NoCursor == [kind |-> "none", off |-> 0, pp |-> 0]
Token(off, pp) == [kind |-> "token", off |-> off, pp |-> pp]

\* No URL (meta.url before index.ts 270 sets it).
NoUrl == [coll |-> "", pp |-> 0, cursor |-> NoCursor]

Statuses == {StatusOK, StatusNotFound, StatusServerError}

VARIABLES
  n,        \* remote: the number of results of the collection
  trailing, \* remote: TRUE when the last non-empty page still carries a cursor
            \*   (the terminal page is then an empty one)
  req,      \* the searchParameters of the call
  pc,       \* where the running code is suspended
  outcome,  \* the promise returned to the caller: pending, resolved, rejected
  ret,      \* the value the promise resolved to
  err,      \* the error the promise rejected with
  perPage,  \* local perPage of the facade (index.ts 181)
  page,     \* local page of the facade (index.ts 182)
  cursor,   \* local cursor of the facade (index.ts 202)
  url,      \* local url of the facade after appendCursorToUrl (index.ts 213)
  rs,       \* the running getCursorByPage call
  hd,       \* the running handle...Pages call
  net,      \* requests in flight
  log,      \* every request issued, in order
  got,      \* the status each answered request got, in the order of log
  files     \* every export written, in order

vars == <<n, trailing, req, pc, outcome, ret, err, perPage, page, cursor, url,
          rs, hd, net, log, got, files>>

\* The results of the page that starts after `off` results, `pp` per page.
PageResults(off, pp) ==
  IF off >= n THEN <<>>
  ELSE [i \in 1..(Min(off + pp, n) - off) |-> off + i]

\* The next_cursor of that page.
NextCursor(off, pp) ==
  IF trailing
  THEN IF off < n THEN Token(off + pp, pp) ELSE NoCursor
  ELSE IF off + pp < n THEN Token(off + pp, pp) ELSE NoCursor

\* The body of a 200 answer to GET <collection>?cursor=c&per-page=pp
\* (spec.md section 6: {results, meta: {count, page, per_page, next_cursor}}).
PageBody(c, pp) ==
  [results |-> PageResults(c.off, pp),
   meta |-> [count |-> n, page |-> Absent, per_page |-> pp,
             next_cursor |-> NextCursor(c.off, pp), url |-> NoUrl]]

\* The semantically empty page of the Page Fetcher (spec.md section 4.3).
EmptyPage(pp) ==
  [results |-> <<>>,
   meta |-> [count |-> 0, page |-> Absent, per_page |-> pp,
             next_cursor |-> NoCursor, url |-> NoUrl]]

\* ------------------------------------------------------------ the request
NoReq ==
  [facade |-> "none", id |-> "", ext |-> FALSE, page |-> Absent, perPage |-> Absent,
   retriveAllPages |-> FALSE, startPage |-> Absent, endPage |-> Absent,
   chunkSize |-> Absent, toJson |-> FALSE, toCsv |-> FALSE,
   search |-> FALSE, searchField |-> FALSE]

OptPages == {Absent} \cup (1..MaxPage)

\* The searchParameters a caller may pass to a list facade.  Only works reads
\* chunkSize (index.ts 179); toJson and toCsv are the file stem, given or not.
\* search and searchField are a query and a field name, given or not.
\* Collections of more than MaxSmall results are read in drain mode only, and
\* search and searchField are given only in requests without page and export.
ListRequests ==
  { r \in [facade : ListFacades, id : {""}, ext : {FALSE}, page : OptPages,
           perPage : 1..MaxPerPage, retriveAllPages : BOOLEAN,
           startPage : OptPages, endPage : OptPages,
           chunkSize : {Absent, ChunkSize}, toJson : BOOLEAN, toCsv : BOOLEAN,
           search : BOOLEAN, searchField : BOOLEAN] :
      /\ r.chunkSize # Absent => r.facade = "works"
      /\ n > MaxSmall => r.retriveAllPages
      /\ (r.search \/ r.searchField) => (r.page = Absent /\ ~r.toJson /\ ~r.toCsv) }

Ids == {"", "X1"}

LookupRequests ==
  { [NoReq EXCEPT !.facade = f, !.id = i, !.ext = x] :
      f \in LookupFacades, i \in Ids, x \in BOOLEAN }

\* The collection a facade method reads (the URL path segment).
Collection(f) ==
  CASE f \in {"work", "works"} -> "works"
    [] f \in {"author", "authors"} -> "authors"
    [] f \in {"source", "sources"} -> "sources"
    [] f \in {"institution", "institutions"} -> "institutions"
    [] OTHER -> "topics"

\* ------------------------------------------------------------- URLs, GET
\* buildUrl(this.url, '<collection>', ...): the collection URL, no paging yet.
BuildUrl(f) == [coll |-> Collection(f), pp |-> 0, cursor |-> NoCursor]

\* appendCursorToUrl(url, perPage, cursor, retriveAllPages): the paging
\* parameters cursor and per-page appended (spec.md section 4.3).
AppendCursorToUrl(u, pp, c) == [u EXCEPT !.pp = pp, !.cursor = c]

\* A request on the wire.
Request(kind, coll, c, pp, id) ==
  [kind |-> kind, coll |-> coll, cursor |-> c, pp |-> pp, id |-> id]

\* GET(url): the request is issued and stays in flight until its response.
Issue(r) ==
  /\ log' = Append(log, r)
  /\ net' = net \cup {Len(log) + 1}
  /\ UNCHANGED got

\* The response to the request in flight is received, and no request follows.
Receive(status) ==
  /\ net' = net \ {Len(log)}
  /\ got' = Append(got, status)
  /\ UNCHANGED log

\* The response to the request in flight is received, and request r is issued.
ReceiveThenIssue(status, r) ==
  /\ log' = Append(log, r)
  /\ got' = Append(got, status)
  /\ net' = (net \ {Len(log)}) \cup {Len(log) + 1}

NoErr == [kind |-> "none", status |-> 0]
ValidationError == [kind |-> "validation", status |-> 0]
\* new Error(`Error ${response.status}: ${response.statusText}`)
TransportError(status) == [kind |-> "transport", status |-> status]

NoRet == [kind |-> "none"]

\* getCursorByPage: its arguments, its call site, the fetches it has made, the
\* last cursor it knows, and once it has returned the cursor it returned.  from
\* and upto are the lengths of log when it was called and when it returned.
NoRs == [target |-> 0, fetched |-> 0, cur |-> NoCursor, pp |-> 0, stage |-> "none",
         state |-> "none", ret |-> NoCursor, from |-> 0, upto |-> 0]
NoHd == [kind |-> "none", acc |-> <<>>, cur |-> NoCursor, pageNo |-> 0,
         first |-> EmptyPage(0), chunk |-> 0, state |-> "none", status |-> 0]

Sizes == (0..MaxSmall) \cup {DrainPageSize + 50, 2 * DrainPageSize + 50}

Init ==
  /\ n \in Sizes
  /\ trailing \in BOOLEAN
  /\ req = NoReq
  /\ pc = "idle"
  /\ outcome = "none"
  /\ ret = NoRet
  /\ err = NoErr
  /\ perPage = Absent
  /\ page = Absent
  /\ cursor = NoCursor
  /\ url = NoUrl
  /\ rs = NoRs
  /\ hd = NoHd
  /\ net = {}
  /\ log = <<>>
  /\ got = <<>>
  /\ files = <<>>

\* The promise returned to the caller rejects: a throw inside the async method.
Reject(e) ==
  /\ outcome' = "rejected"
  /\ err' = e
  /\ pc' = "end"
  /\ UNCHANGED ret

\* ------------------------------------------------------------- validation
\* What the facade hands to its validator (index.ts 183-191, 427, 516, 606-611,
\* 701): retriveAllPages, startPage, endPage, searchField (works: chunkSize,
\* toCsv and toJson too).  search is not among them: the validator sees it as
\* not given, whatever the caller passed.
ValidatorArgs(r) == [r EXCEPT !.search = FALSE]

\* validateParameters / validate<Entity>Parameters (spec.md section 7): a
\* bounded window together with drain-to-completion, and startPage without
\* endPage, are rejected.  A searchField is accepted without a look at search
\* (the call documented at index.ts 129-139 gives both and is valid, and the
\* validator cannot tell it from one that gives searchField alone).
Invalid(r) ==
  \/ r.retriveAllPages /\ (r.startPage # Absent \/ r.endPage # Absent)
  \/ r.startPage # Absent /\ r.endPage = Absent

\* A facade that goes on to line 202 without validating its parameters.
CallUnchecked(r) ==
  /\ req' = r
  /\ perPage' = r.perPage
  /\ page' = r.page
  /\ pc' = "A"
  /\ outcome' = "pending"
  /\ url' = BuildUrl(r.facade)
  /\ UNCHANGED <<n, trailing, ret, err, cursor, rs, hd, net, log, got, files>>

\* index.ts 160-201: the parameters are destructured, validated, and the
\* collection URL is built.  A validation error is thrown before line 202.
Call(r) ==
  /\ req' = r
  /\ perPage' = r.perPage
  /\ page' = r.page
  /\ IF Invalid(ValidatorArgs(r))
     THEN /\ Reject(ValidationError)
          /\ UNCHANGED <<url>>
     ELSE /\ pc' = "A"
          /\ outcome' = "pending"
          /\ url' = BuildUrl(r.facade)
          /\ UNCHANGED <<ret, err>>
  /\ UNCHANGED <<n, trailing, cursor, rs, hd, net, log, got, files>>

\* ------------------------------------------------------- Cursor Resolver
\* getCursorByPage(url, targetPage, perPage) (spec.md section 4.2), up to its
\* first request: for targetPage <= 1 (or undefined) the start sentinel, with
\* no request; otherwise the first of targetPage - 1 fetches, from "*".
\* `stage` is the call site: "A" (index.ts 202) or "B" (index.ts 210).
GetCursorByPage(target, pp, stage) ==
  IF target <= 1
  THEN /\ cursor' = Star
       /\ rs' = [NoRs EXCEPT !.target = target, !.pp = pp, !.stage = stage,
                             !.state = "returned", !.ret = Star,
                             !.from = Len(log), !.upto = Len(log)]
       /\ pc' = IF stage = "A" THEN "B" ELSE "C"
       /\ UNCHANGED <<net, log, got>>
  ELSE /\ rs' = [NoRs EXCEPT !.target = target, !.pp = pp, !.stage = stage,
                             !.state = "running", !.cur = Star, !.from = Len(log)]
       /\ Issue(Request("resolve", url.coll, Star, pp, ""))
       /\ pc' = "resolving"
       /\ UNCHANGED cursor

\* getCursorByPage returns c to its call site.
ResolverReturn(status, c) ==
  /\ cursor' = c
  /\ pc' = IF rs.stage = "A" THEN "B" ELSE "C"
  /\ rs' = [rs EXCEPT !.state = "returned", !.ret = c, !.fetched = @ + 1,
                      !.upto = Len(log)]
  /\ Receive(status)
  /\ UNCHANGED <<outcome, ret, err>>

\* The Page Fetcher (spec.md section 4.3) as the helpers use it: a 200 answer
\* is the page, a 404 answer the empty page.
FetchedPage(status, c, pp) ==
  IF status = StatusNotFound THEN EmptyPage(pp) ELSE PageBody(c, pp)

\* A resolver that replays one page too many: targetPage fetches.
OnResolveResponseOneMore(status) ==
  /\ pc = "resolving"
  /\ IF status \notin {StatusOK, StatusNotFound}
     THEN /\ Reject(TransportError(status))
          /\ Receive(status)
          /\ rs' = [rs EXCEPT !.state = "failed", !.fetched = @ + 1]
          /\ UNCHANGED cursor
     ELSE LET next == FetchedPage(status, rs.cur, rs.pp).meta.next_cursor IN
          IF next = NoCursor
          THEN ResolverReturn(status, rs.cur)
          ELSE IF rs.fetched + 1 = rs.target
          THEN ResolverReturn(status, next)
          ELSE /\ rs' = [rs EXCEPT !.fetched = @ + 1, !.cur = next]
               /\ ReceiveThenIssue(status, Request("resolve", url.coll, next, rs.pp, ""))
               /\ UNCHANGED <<pc, cursor, outcome, ret, err>>
  /\ UNCHANGED <<n, trailing, req, perPage, page, url, hd, files>>

\* The answer to a fetch of getCursorByPage: a transport error propagates; a
\* page without next cursor ends the replay at the last known cursor; after
\* targetPage - 1 fetches the cursor of targetPage is returned.
OnResolveResponse(status) ==
  /\ pc = "resolving"
  /\ IF status \notin {StatusOK, StatusNotFound}
     THEN /\ Reject(TransportError(status))
          /\ Receive(status)
          /\ rs' = [rs EXCEPT !.state = "failed", !.fetched = @ + 1]
          /\ UNCHANGED cursor
     ELSE LET next == FetchedPage(status, rs.cur, rs.pp).meta.next_cursor IN
          IF next = NoCursor
          THEN ResolverReturn(status, rs.cur)
          ELSE IF rs.fetched + 1 = rs.target - 1
          THEN ResolverReturn(status, next)
          ELSE /\ rs' = [rs EXCEPT !.fetched = @ + 1, !.cur = next]
               /\ ReceiveThenIssue(status, Request("resolve", url.coll, next, rs.pp, ""))
               /\ UNCHANGED <<pc, cursor, outcome, ret, err>>
  /\ UNCHANGED <<n, trailing, req, perPage, page, url, hd, files>>

\* ------------------------------------------------------------ list facades
\* A facade that does not await getCursorByPage at line 202: the replay has
\* issued its first fetch when the facade goes on.
StageANoAwait ==
  /\ pc = "A"
  /\ pc' = "B"
  /\ cursor' = Star
  /\ IF page <= 1
     THEN UNCHANGED <<net, log, got>>
     ELSE Issue(Request("resolve", url.coll, Star, perPage, ""))
  /\ UNCHANGED <<n, trailing, req, outcome, ret, err, perPage, page, url, rs, hd, files>>

\* index.ts 202: let cursor = await getCursorByPage(url, page, perPage).
StageA ==
  /\ pc = "A"
  /\ GetCursorByPage(page, perPage, "A")
  /\ UNCHANGED <<n, trailing, req, outcome, ret, err, perPage, page, url, hd, files>>

\* A facade that keeps the cursor of `page` for a bounded window (line 210 lost).
StageBKeepsCursor ==
  /\ pc = "B"
  /\ perPage' = IF req.retriveAllPages THEN DrainPageSize ELSE perPage
  /\ page' = IF Truthy(req.startPage) /\ Truthy(req.endPage) THEN req.startPage ELSE page
  /\ cursor' = IF req.retriveAllPages THEN Star ELSE cursor
  /\ pc' = "C"
  /\ UNCHANGED <<n, trailing, req, outcome, ret, err, url, rs, hd, net, log, got, files>>

\* A facade that does not reset the cursor in drain mode (line 205 lost).
StageBNoReset ==
  /\ pc = "B"
  /\ perPage' = IF req.retriveAllPages THEN DrainPageSize ELSE perPage
  /\ IF Truthy(req.startPage) /\ Truthy(req.endPage)
     THEN /\ page' = req.startPage
          /\ GetCursorByPage(req.startPage, perPage', "B")
     ELSE /\ pc' = "C"
          /\ UNCHANGED <<page, cursor, rs, net, log, got>>
  /\ UNCHANGED <<n, trailing, req, outcome, ret, err, url, hd, files>>

\* A facade that keeps the caller's perPage in drain mode (line 204 lost).
StageBKeepsPerPage ==
  /\ pc = "B"
  /\ perPage' = perPage
  /\ IF Truthy(req.startPage) /\ Truthy(req.endPage)
     THEN /\ page' = req.startPage
          /\ GetCursorByPage(req.startPage, perPage', "B")
     ELSE /\ cursor' = IF req.retriveAllPages THEN Star ELSE cursor
          /\ pc' = "C"
          /\ UNCHANGED <<page, rs, net, log, got>>
  /\ UNCHANGED <<n, trailing, req, outcome, ret, err, url, hd, files>>

\* A facade that does not set page to startPage for a window (line 209 lost).
StageBKeepsPage ==
  /\ pc = "B"
  /\ perPage' = IF req.retriveAllPages THEN DrainPageSize ELSE perPage
  /\ IF Truthy(req.startPage) /\ Truthy(req.endPage)
     THEN /\ page' = page
          /\ GetCursorByPage(req.startPage, perPage', "B")
     ELSE /\ cursor' = IF req.retriveAllPages THEN Star ELSE cursor
          /\ pc' = "C"
          /\ UNCHANGED <<page, rs, net, log, got>>
  /\ UNCHANGED <<n, trailing, req, outcome, ret, err, url, hd, files>>

\* index.ts 203-211: drain mode forces perPage = 200 and the start cursor; a
\* bounded window sets page = startPage and resolves the cursor of startPage.
StageB ==
  /\ pc = "B"
  /\ perPage' = IF req.retriveAllPages THEN DrainPageSize ELSE perPage
  /\ IF Truthy(req.startPage) /\ Truthy(req.endPage)
     THEN /\ page' = req.startPage
          /\ GetCursorByPage(req.startPage, perPage', "B")
     ELSE /\ cursor' = IF req.retriveAllPages THEN Star ELSE cursor
          /\ pc' = "C"
          /\ UNCHANGED <<page, rs, net, log, got>>
  /\ UNCHANGED <<n, trailing, req, outcome, ret, err, url, hd, files>>

\* index.ts 213-215: the paging parameters are appended and the page is fetched.
StageC ==
  /\ pc = "C"
  /\ url' = AppendCursorToUrl(url, perPage, cursor)
  /\ Issue(Request("first", url.coll, cursor, perPage, ""))
  /\ pc' = "first"
  /\ UNCHANGED <<n, trailing, req, outcome, ret, err, perPage, page, cursor, rs, hd, files>>

\* ----------------------------------------------------------- Export Sink
\* The sinks of the request: fs.writeFileSync(`${toJson}.json`) and
\* convertToCSV(results, toCsv), in the order the code writes them.
Sinks(r) ==
  (IF r.toJson THEN <<"json">> ELSE <<>>) \o (IF r.toCsv THEN <<"csv">> ELSE <<>>)

\* One file: its format, the chunk index appended to its stem (Absent for the
\* bare name <name>.json / <name>.csv) and the results it holds.
File(fmt, idx, results) == [fmt |-> fmt, idx |-> idx, results |-> results]

\* The single-shot export of `results` under the bare name.
Exports(r, results) ==
  [i \in 1..Len(Sinks(r)) |-> File(Sinks(r)[i], Absent, results)]

\* The promise returned to the caller resolves with page `data`.
Resolve(data) ==
  /\ outcome' = "resolved"
  /\ ret' = [kind |-> "page", data |-> data]
  /\ UNCHANGED err

\* -------------------------------------------------------- Pagination Driver
\* handleMultiplePages / handleAllPages and their per-entity twins (spec.md
\* section 4.4, modes 2 and 3 monolithic).  Whether the traversal goes on after
\* the page numbered pageNo whose next cursor is cur.
GoesOn(kind, pageNo, cur) ==
  /\ cur # NoCursor
  /\ kind = "multi" => pageNo < req.endPage

\* The handler has visited a page: acc holds every result so far.  It fetches
\* the next page, or exports and returns the PageWindow: the concatenation,
\* under the meta of the first page.
HandlerStep(status, kind, first, acc, pageNo, cur) ==
  IF GoesOn(kind, pageNo, cur)
  THEN /\ hd' = [NoHd EXCEPT !.kind = kind, !.first = first, !.acc = acc,
                             !.pageNo = pageNo, !.cur = cur, !.state = "waiting"]
       /\ ReceiveThenIssue(status, Request("next", url.coll, cur, url.pp, ""))
       /\ pc' = "handling"
       /\ UNCHANGED <<outcome, ret, err, files>>
  ELSE /\ hd' = [NoHd EXCEPT !.kind = kind, !.state = "done", !.pageNo = pageNo]
       /\ Receive(status)
       /\ files' = files \o Exports(req, acc)
       /\ Resolve([first EXCEPT !.results = acc])
       /\ pc' = "end"

\* The answer to a fetch of handleMultiplePages / handleAllPages.
OnHandlerResponse(status) ==
  /\ pc = "handling"
  /\ IF status \notin {StatusOK, StatusNotFound}
     THEN /\ Reject(TransportError(status))
          /\ Receive(status)
          /\ hd' = [hd EXCEPT !.state = "failed", !.status = status]
          /\ UNCHANGED files
     ELSE LET pg == FetchedPage(status, hd.cur, url.pp) IN
          HandlerStep(status, hd.kind, hd.first, hd.acc \o pg.results, hd.pageNo + 1,
                      pg.meta.next_cursor)
  /\ UNCHANGED <<n, trailing, req, perPage, page, cursor, url, rs>>

\* handleAllPagesInChunks (spec.md section 4.4, mode 3 chunked): the files of
\* the full chunks of acc, numbered from `base`, each holding chunkSize results.
ChunkFiles(r, acc, base) ==
  LET c == r.chunkSize
      m == Len(Sinks(r))
      k == Len(acc) \div c
  IN [i \in 1..(k * m) |->
        LET ci == (i - 1) \div m
        IN File(Sinks(r)[((i - 1) % m) + 1], base + ci,
                SubSeq(acc, ci * c + 1, (ci + 1) * c))]

\* What stays in the accumulator after the full chunks were flushed.
ChunkRest(r, acc) ==
  SubSeq(acc, (Len(acc) \div r.chunkSize) * r.chunkSize + 1, Len(acc))

\* The final partial chunk, flushed when draining ends.
LastChunkFiles(r, rest, idx) ==
  IF rest = <<>> THEN <<>>
  ELSE [i \in 1..Len(Sinks(r)) |-> File(Sinks(r)[i], idx, rest)]

\* The files handleAllPagesInChunks writes once acc holds every result so far
\* and the page just visited has next cursor cur.
ChunkWrites(r, acc, base, cur) ==
  ChunkFiles(r, acc, base) \o
  (IF cur = NoCursor
   THEN LastChunkFiles(r, ChunkRest(r, acc), base + (Len(acc) \div r.chunkSize))
   ELSE <<>>)

\* The state of handleAllPagesInChunks after that step.
ChunkState(r, acc, base, cur) ==
  [NoHd EXCEPT !.kind = "chunks",
               !.acc = IF cur = NoCursor THEN <<>> ELSE ChunkRest(r, acc),
               !.chunk = base + (Len(acc) \div r.chunkSize),
               !.cur = cur,
               !.state = IF cur = NoCursor THEN "done" ELSE "waiting"]

\* The answer to a fetch of handleAllPagesInChunks.  Nothing awaits this call
\* (index.ts 244): a transport error rejects its own promise, not the caller's.
OnChunkResponse(status) ==
  /\ pc = "chunking"
  /\ IF status \notin {StatusOK, StatusNotFound}
     THEN /\ hd' = [hd EXCEPT !.state = "failed", !.status = status]
          /\ Receive(status)
          /\ pc' = "end"
          /\ UNCHANGED files
     ELSE LET pg == FetchedPage(status, hd.cur, url.pp)
              acc == hd.acc \o pg.results
              cur == pg.meta.next_cursor
          IN /\ hd' = ChunkState(req, acc, hd.chunk, cur)
             /\ files' = files \o ChunkWrites(req, acc, hd.chunk, cur)
             /\ IF cur = NoCursor
                THEN Receive(status) /\ pc' = "end"
                ELSE /\ ReceiveThenIssue(status, Request("next", url.coll, cur, url.pp, ""))
                     /\ UNCHANGED pc
  /\ UNCHANGED <<n, trailing, req, outcome, ret, err, perPage, page, cursor, url, rs>>

\* index.ts 242-251 and 262-271, works with chunkSize: handleAllPagesInChunks
\* is called and not awaited.  It runs up to its first request; then works
\* itself exports the first page under the bare name and returns it.
ChunkedDrain(status, data) ==
  LET cur == data.meta.next_cursor IN
  /\ hd' = ChunkState(req, data.results, 0, cur)
  /\ files' = files \o ChunkWrites(req, data.results, 0, cur)
                    \o Exports(req, data.results)
  /\ IF cur = NoCursor
     THEN Receive(status) /\ pc' = "end"
     ELSE /\ ReceiveThenIssue(status, Request("next", url.coll, cur, url.pp, ""))
          /\ pc' = "chunking"
  /\ Resolve([data EXCEPT !.meta.url = url])

\* Facades that all record the URL in meta.url of a single page.
SinglePageUrlInAll(status, data) ==
  /\ files' = files \o Exports(req, data.results)
  /\ Resolve([data EXCEPT !.meta.url = url])
  /\ Receive(status)
  /\ pc' = "end"
  /\ UNCHANGED hd

\* index.ts 262-271 (works) and 471-479 (the other facades): the single page
\* is exported and returned; works records the URL in meta.url.
SinglePage(status, data) ==
  /\ files' = files \o Exports(req, data.results)
  /\ Resolve(IF req.facade = "works" THEN [data EXCEPT !.meta.url = url] ELSE data)
  /\ Receive(status)
  /\ pc' = "end"
  /\ UNCHANGED hd

\* A facade that takes a 404 for an empty page instead of throwing.
FirstPageThrowsUnless404(status) == status \notin {StatusOK, StatusNotFound}

\* index.ts 217 and 272-274: the facade throws unless the status is 200.
FirstPageThrows(status) == status # StatusOK

\* index.ts 217-274: the answer to the facade's own page fetch.  Any status
\* but 200 throws; otherwise meta.page = page ?? 1 and the traversal mode is
\* chosen.
OnFirstResponse(status) ==
  /\ pc = "first"
  /\ IF FirstPageThrows(status)
     THEN /\ Reject(TransportError(status))
          /\ Receive(status)
          /\ UNCHANGED <<hd, files>>
     ELSE LET body == FetchedPage(status, url.cursor, url.pp)
              data == [body EXCEPT !.meta.page = IF page = Absent THEN 1 ELSE page]
          IN IF Truthy(req.startPage) /\ Truthy(req.endPage)
             THEN HandlerStep(status, "multi", data, data.results, req.startPage,
                              data.meta.next_cursor)
             ELSE IF req.retriveAllPages
             THEN IF req.facade = "works" /\ Truthy(req.chunkSize)
                  THEN ChunkedDrain(status, data)
                  ELSE HandlerStep(status, "all", data, data.results, 1,
                                   data.meta.next_cursor)
             ELSE SinglePage(status, data)
  /\ UNCHANGED <<n, trailing, req, perPage, page, cursor, url, rs>>

\* ------------------------------------------------------- entity lookups
\* The entity the remote holds under an id, and the empty entity work()
\* returns (index.ts 90-94): the requested id, nothing else.
RemoteEntity(id) == [id |-> id, biblio |-> {"volume"}, counts_by_year |-> <<1>>]
Placeholder(id) == [id |-> id, biblio |-> {}, counts_by_year |-> <<>>]

\* work, author, source, institution, topic up to their GET (index.ts 76-80,
\* 332-336, 484-488, 574-578, 669-673).  topic throws on an empty id.
Lookup(r) ==
  /\ req' = r
  /\ IF r.facade = "topic" /\ r.id = ""
     THEN /\ Reject(ValidationError)
          /\ UNCHANGED <<net, log, got>>
     ELSE /\ Issue(Request("entity", Collection(r.facade), NoCursor, 0, r.id))
          /\ pc' = "lookup"
          /\ outcome' = "pending"
          /\ UNCHANGED <<ret, err>>
  /\ UNCHANGED <<n, trailing, perPage, page, cursor, url, rs, hd, files>>

\* A lookup that throws on every status other than 200, work included.
LookupFailureThrows(status) == Reject(TransportError(status))

\* What a lookup does with a status other than 200: work logs it and returns
\* the empty work (index.ts 84-94); the others throw (index.ts 339-341,
\* 491-493, 581-583, 676-678).
LookupFailure(status) ==
  IF req.facade = "work"
  THEN /\ outcome' = "resolved"
       /\ ret' = [kind |-> "entity", data |-> Placeholder(req.id)]
       /\ pc' = "end"
       /\ UNCHANGED err
  ELSE Reject(TransportError(status))

\* The answer to the GET of a lookup.
OnLookupResponse(status) ==
  /\ pc = "lookup"
  /\ Receive(status)
  /\ IF status = StatusOK
     THEN /\ outcome' = "resolved"
          /\ ret' = [kind |-> "entity", data |-> RemoteEntity(req.id)]
          /\ pc' = "end"
          /\ UNCHANGED err
     ELSE LookupFailure(status)
  /\ UNCHANGED <<n, trailing, req, perPage, page, cursor, url, rs, hd, files>>

LookupCall ==
  /\ pc = "idle"
  /\ \E r \in LookupRequests : Lookup(r)

ListCall ==
  /\ pc = "idle"
  /\ \E r \in ListRequests : Call(r)

Next ==
  \/ ListCall
  \/ LookupCall
  \/ \E status \in Statuses : OnLookupResponse(status)
  \/ StageA
  \/ StageB
  \/ StageC
  \/ \E status \in Statuses : OnResolveResponse(status)
  \/ \E status \in Statuses : OnFirstResponse(status)
  \/ \E status \in Statuses : OnHandlerResponse(status)
  \/ \E status \in Statuses : OnChunkResponse(status)

Spec == Init /\ [][Next]_vars

\* Drain-to-completion calls alone.  Once a call is made, the event loop runs
\* every continuation whose response has arrived, and the transport answers
\* every request (its timeouts, spec.md section 5): the steps are weakly fair.
DrainCall ==
  /\ pc = "idle"
  /\ \E r \in ListRequests : r.retriveAllPages /\ Call(r)

DrainSteps ==
  \/ StageA
  \/ StageB
  \/ StageC
  \/ \E status \in Statuses : OnResolveResponse(status)
  \/ \E status \in Statuses : OnFirstResponse(status)
  \/ \E status \in Statuses : OnHandlerResponse(status)
  \/ \E status \in Statuses : OnChunkResponse(status)

DrainNext == DrainCall \/ DrainSteps

FairDrainSpec == Init /\ [][DrainNext]_vars /\ WF_vars(DrainSteps)


\* ------------------------------------------------------------- the claims
IsList == req.facade \in ListFacades
IsLookup == req.facade \in LookupFacades
\* The request asks for a bounded window (index.ts 208: startPage && endPage).
Window == Truthy(req.startPage) /\ Truthy(req.endPage)
\* The request is a chunked drain (index.ts 242-243).
Chunked == req.facade = "works" /\ req.retriveAllPages /\ Truthy(req.chunkSize)
\* Every answer so far was a 200.
AllOK == \A i \in 1..Len(got) : got[i] = StatusOK
\* The results a..b of the collection, in API order.
Range(a, b) == [i \in 1..(b - a + 1) |-> a + i - 1]
\* The page fetches issued so far (not the fetches of cursor resolution).
IsPageFetch(r) == r.kind \in {"first", "next"}
PageFetches == SelectSeq(log, IsPageFetch)

\* C1: a list request that sets startPage, endPage and retriveAllPages is
\* rejected with a validation error, and no request was issued for it.
C1_WindowWithDrainRejected ==
  (IsList /\ req.retriveAllPages /\ req.startPage # Absent /\ req.endPage # Absent)
    => (outcome = "rejected" /\ err = ValidationError /\ log = <<>> /\ net = {})

C1_Witness ==
  /\ req.facade = "authors" /\ req.retriveAllPages
  /\ req.startPage = 1 /\ req.endPage = 2 /\ req.page = 2
  /\ outcome = "rejected"

\* C2: a bounded window s..e (s <= e) over a collection of at least e pages,
\* every answer a 200, returns the results of pages s..e in API order, and
\* the page fetches are those of pages s, s+1, ..., e, each once.
C2_WindowReturnsPages ==
  (IsList /\ Window /\ req.startPage <= req.endPage
     /\ (req.endPage - 1) * req.perPage < n
     /\ outcome = "resolved" /\ AllOK)
    => /\ ret.data.results =
            Range((req.startPage - 1) * req.perPage + 1, Min(req.endPage * req.perPage, n))
       /\ Len(PageFetches) = req.endPage - req.startPage + 1
       /\ \A i \in 1..Len(PageFetches) :
            /\ PageFetches[i].cursor.off = (req.startPage + i - 2) * req.perPage
            /\ PageFetches[i].pp = req.perPage

C2_Witness ==
  /\ req.facade = "works" /\ req.startPage = 2 /\ req.endPage = 3 /\ req.page = 3
  /\ req.perPage = 1 /\ n = 3
  /\ outcome = "resolved" /\ AllOK
  /\ ret.data.results = <<2, 3>>

\* A valid drain-to-completion request.
Drain == IsList /\ req.retriveAllPages /\ ~Invalid(req)

\* While every answer is a 200, no page is fetched after a page without next
\* cursor; a monolithic drain that returned fetched such a page last and
\* returns as many results as the collection holds.
DrainStopsAtLastPage ==
  (Drain /\ AllOK)
    => /\ \A i \in 1..(Len(PageFetches) - 1) :
            NextCursor(PageFetches[i].cursor.off, PageFetches[i].pp) # NoCursor
       /\ (~Chunked /\ outcome = "resolved")
            => /\ PageFetches # <<>>
               /\ NextCursor(PageFetches[Len(PageFetches)].cursor.off,
                             PageFetches[Len(PageFetches)].pp) = NoCursor
               /\ Len(ret.data.results) = n

\* C3: a drain-to-completion call terminates; it stops at the first page that
\* has no next cursor, and the monolithic result holds as many results as all
\* the pages of the collection together.
C3_DrainTerminates ==
  /\ []DrainStopsAtLastPage
  /\ (Drain /\ pc # "end") ~> (pc = "end")

C3_Witness ==
  /\ req.facade = "sources" /\ req.retriveAllPages /\ req.page = 2
  /\ n = 2 * DrainPageSize + 50
  /\ outcome = "resolved" /\ AllOK /\ pc = "end"
  /\ Len(ret.data.results) = n
  /\ Len(PageFetches) >= 3

IsJson(f) == f.fmt = "json"
IsCsv(f) == f.fmt = "csv"
\* ceil(a / b)
CeilDiv(a, b) == (a + b - 1) \div b
\* The files fs are the chunks of the collection: ceil(n/c) of them, each of c
\* results but the last, which holds the remainder, in API order.
AreChunks(fs, c) ==
  /\ Len(fs) = CeilDiv(n, c)
  /\ \A i \in 1..Len(fs) : fs[i].results = Range((i - 1) * c + 1, Min(i * c, n))

\* C4: a chunked drain that has finished, every answer a 200, has written to
\* each sink exactly ceil(n/c) files: the chunks of the collection, every
\* result once.
C4_ChunkedFlushes ==
  (Chunked /\ ~Invalid(req) /\ pc = "end" /\ hd.state = "done" /\ AllOK)
    => /\ req.toJson => AreChunks(SelectSeq(files, IsJson), req.chunkSize)
       /\ req.toCsv => AreChunks(SelectSeq(files, IsCsv), req.chunkSize)

\* C5: the value a chunked drain resolves to carries none of the fetched
\* results.
C5_ChunkedReturnsNothing ==
  (Chunked /\ outcome = "resolved") => ret.data.results = <<>>

\* C6 as claimed: every lookup answered 404 returns the placeholder entity of
\* the requested id and does not throw.
C6_EveryLookup404Placeholder ==
  (IsLookup /\ got = <<StatusNotFound>>)
    => (outcome = "resolved" /\ ret.data = Placeholder(req.id))

\* C6 as amended: work answered 404 returns the placeholder entity of the
\* requested id; author, source, institution and topic answered 404 throw an
\* error that carries the status.
C6_Lookup404 ==
  (IsLookup /\ got = <<StatusNotFound>>)
    => IF req.facade = "work"
       THEN outcome = "resolved" /\ ret.data = Placeholder(req.id)
       ELSE outcome = "rejected" /\ err = TransportError(StatusNotFound)

C6_Witness ==
  /\ req.facade = "work" /\ req.id = "X1" /\ got = <<StatusNotFound>>
  /\ outcome = "resolved"
  /\ ret.data = [id |-> "X1", biblio |-> {}, counts_by_year |-> <<>>]

\* C7: once a page fetch is answered with a status that is neither 2xx nor
\* 404, no further request is issued and the call fails with a transport error
\* that carries the status.
C7_TransportErrorAborts ==
  \A i \in 1..Len(got) :
    (IsList /\ IsPageFetch(log[i]) /\ got[i] \notin {StatusOK, StatusNotFound})
      => (Len(log) = i /\ outcome = "rejected" /\ err = TransportError(got[i]))

\* C8 as claimed: a list request one of whose page fetches is answered 404
\* (none with an error status) does not throw.
C8_NotFoundIsEmptyPage ==
  (/\ IsList
   /\ \E i \in 1..Len(got) : IsPageFetch(log[i]) /\ got[i] = StatusNotFound
   /\ \A i \in 1..Len(got) : got[i] \in {StatusOK, StatusNotFound})
    => outcome # "rejected"

\* C8 as amended: when the page fetch the facade itself issues (index.ts 215)
\* is answered 404, the call throws an error that carries status 404; no page
\* is returned, no further request issued and nothing exported.
C8_FirstPage404Throws ==
  \A i \in 1..Len(got) :
    (log[i].kind = "first" /\ got[i] = StatusNotFound)
      => /\ outcome = "rejected" /\ err = TransportError(StatusNotFound)
         /\ ret = NoRet /\ Len(log) = i /\ files = <<>>

C8_Witness ==
  /\ req.facade = "topics" /\ log # <<>> /\ Len(got) = Len(log)
  /\ log[Len(log)].kind = "first" /\ got[Len(got)] = StatusNotFound
  /\ outcome = "rejected" /\ err.status = StatusNotFound

\* C9: a call of the Cursor Resolver for page N that has returned, every
\* answer a 200 and the collection at least N pages long, issued exactly
\* max(0, N-1) requests, one after the other from "*"; it returned "*" for
\* N <= 1 and otherwise the cursor that yields page N.
C9_ResolverFetches ==
  (/\ rs.state = "returned"
   /\ \A k \in (rs.from + 1)..rs.upto : got[k] = StatusOK
   /\ rs.target > 1 => (rs.target - 1) * rs.pp < n)
    => /\ rs.upto - rs.from = (IF rs.target > 1 THEN rs.target - 1 ELSE 0)
       /\ \A k \in 1..(rs.upto - rs.from) :
            log[rs.from + k] =
              Request("resolve", url.coll,
                      IF k = 1 THEN Star ELSE Token((k - 1) * rs.pp, rs.pp), rs.pp, "")
       /\ rs.ret = (IF rs.target > 1 THEN Token((rs.target - 1) * rs.pp, rs.pp) ELSE Star)

C9_Witness ==
  /\ rs.state = "returned" /\ rs.target = 3 /\ rs.pp = 1 /\ n = 3
  /\ rs.upto - rs.from = 2
  /\ got = <<StatusOK, StatusOK>>
  /\ rs.ret = Token(2, 1)

\* C10: a list request that sets startPage and no endPage is rejected with a
\* validation error, and no request was issued for it.
C10_StartWithoutEndRejected ==
  (IsList /\ req.startPage # Absent /\ req.endPage = Absent)
    => (outcome = "rejected" /\ err = ValidationError /\ log = <<>> /\ net = {})

C10_Witness ==
  /\ req.facade = "works" /\ req.startPage = 2 /\ req.endPage = Absent
  /\ req.page = 2 /\ ~req.retriveAllPages
  /\ outcome = "rejected" /\ err = ValidationError

\* C11: a list request that gives searchField and no search is rejected with
\* a validation error, and no request was issued for it.
C11_SearchFieldWithoutSearchRejected ==
  (IsList /\ req.searchField /\ ~req.search)
    => /\ log = <<>>
       /\ outcome # "pending" => (outcome = "rejected" /\ err = ValidationError)

\* C12: a single-entity lookup answered with a status that is neither 2xx nor
\* 404 throws a transport error that carries the status; the error is not
\* swallowed into a returned value.
C12_LookupErrorThrows ==
  (IsLookup /\ Len(got) = 1 /\ got[1] \notin {StatusOK, StatusNotFound})
    => (outcome = "rejected" /\ err = TransportError(got[1]) /\ ret = NoRet)

\* C13: in a drain-to-completion call, whatever perPage and page the caller
\* gave, the first page fetch uses the start cursor "*" and every page fetch
\* uses page size 200.
C13_DrainFetches ==
  Drain => \A i \in 1..Len(PageFetches) :
             /\ PageFetches[i].pp = DrainPageSize
             /\ i = 1 => PageFetches[i].cursor = Star

C13_Witness ==
  /\ req.facade = "institutions" /\ req.retriveAllPages
  /\ req.page = 3 /\ req.perPage = 1
  /\ n = 2 * DrainPageSize + 50
  /\ Len(PageFetches) = 3
  /\ PageFetches[1].cursor = Star /\ PageFetches[3].pp = DrainPageSize

\* The fetches of cursor resolution issued so far.
IsResolveFetch(r) == r.kind = "resolve"
ResolveFetches == SelectSeq(log, IsResolveFetch)

\* C14: a drain-to-completion call issues no cursor-resolution fetch, and a
\* bounded window that has issued its first page fetch (every answer a 200,
\* the collection at least startPage pages long) issued exactly startPage - 1
\* cursor-resolution fetches before it, whatever the request's page.
C14_RequestsIndependentOfPage ==
  /\ Drain => ResolveFetches = <<>>
  /\ (IsList /\ Window /\ ~Invalid(req) /\ AllOK /\ PageFetches # <<>>
        /\ (req.startPage - 1) * req.perPage < n)
       => Len(ResolveFetches) = req.startPage - 1

\* C15: once the promise of a chunked drain has settled, the drain is over:
\* no request is in flight and no page fetch or flush is still to come.
C15_ChunkedSettlesAfterDrain ==
  (Chunked /\ outcome # "pending") => (pc = "end" /\ net = {})

\* C16: within one call at most one request is in flight, and it is the last
\* one issued: every request but the last has been answered.
C16_OneRequestInFlight ==
  /\ Cardinality(net) <= 1
  /\ net \subseteq {Len(log)}
  /\ Len(log) - Len(got) = Cardinality(net)

C16_Witness ==
  /\ Chunked /\ req.page = 2 /\ n = 2 * DrainPageSize + 50
  /\ outcome = "resolved" /\ pc = "chunking"
  /\ Len(ResolveFetches) = 1 /\ Len(PageFetches) = 3
  /\ net = {4} /\ Len(got) = 3

\* C17: every export file written for a chunked drain carries a chunk index;
\* none is written under the bare name.
C17_ChunkFilesIndexed ==
  Chunked => \A i \in 1..Len(files) : files[i].idx # Absent

\* The number of the last page of the collection at pp results per page: the
\* first page without next cursor.
LastPage(pp) ==
  IF trailing THEN CeilDiv(n, pp) + 1
  ELSE IF n = 0 THEN 1 ELSE CeilDiv(n, pp)
\* The cursor that yields page k.
CursorOfPage(k, pp) == IF k <= 1 THEN Star ELSE Token((k - 1) * pp, pp)
\* A valid bounded window s..e, s <= e, whose endPage is beyond the last page,
\* has settled, every answer a 200.
WindowPastEnd ==
  /\ IsList /\ Window /\ ~Invalid(req) /\ req.startPage <= req.endPage
  /\ req.endPage > LastPage(req.perPage)
  /\ AllOK /\ outcome # "pending"
\* While every answer is a 200 a valid list request does not fail, and a
\* replay whose target is beyond the last page returns the cursor of the last
\* page.
ResolverStopsAtLastCursor ==
  (IsList /\ AllOK)
    => /\ ~Invalid(req) => outcome # "rejected"
       /\ (rs.state = "returned" /\ rs.target > LastPage(rs.pp))
            => rs.ret = CursorOfPage(LastPage(rs.pp), rs.pp)

C19_WindowMeta ==
  (IsList /\ Window /\ ~Invalid(req) /\ outcome = "resolved")
    => /\ ret.data.meta.page = req.startPage
       /\ ret.data.meta.count = PageBody(PageFetches[1].cursor, req.perPage).meta.count
       /\ ret.data.meta.per_page = PageBody(PageFetches[1].cursor, req.perPage).meta.per_page

C19_Witness ==
  /\ req.facade = "topics" /\ req.startPage = 2 /\ req.endPage = 3 /\ req.page = 1
  /\ req.perPage = 1 /\ n = 3
  /\ outcome = "resolved" /\ got = <<StatusOK, StatusOK, StatusNotFound>>
  /\ ret.data.meta.page = 2 /\ ret.data.meta.count = 3 /\ ret.data.meta.per_page = 1
  /\ ret.data.results = <<2>>

\* A list request that every list facade takes: it has no chunkSize.
Common == IsList /\ ~Truthy(req.chunkSize)
\* The meta of the first page fetched, with meta.page as line 218 sets it:
\* what a result carries when nothing in it depends on the facade.
FirstPageMeta ==
  [PageBody(PageFetches[1].cursor, PageFetches[1].pp).meta
     EXCEPT !.page = IF page = Absent THEN 1 ELSE page]
\* The facade enters the requests by the path segment of its collection, and
\* the exports are those of the returned results under the bare name.
SameRequestsAndExports ==
  /\ \A i \in 1..Len(log) : log[i].coll = Collection(req.facade)
  /\ outcome = "resolved" => files = Exports(req, ret.data.results)

CarriesToken(i) == log[i].cursor.kind = "token"
\* Request j was answered with the page whose next cursor request i carries.
Produced(j, i) ==
  /\ j < i /\ j <= Len(got) /\ got[j] = StatusOK
  /\ NextCursor(log[j].cursor.off, log[j].pp) = log[i].cursor

\* C21: every request that carries a cursor other than the start sentinel
\* goes to the same URL with the same page size as an earlier request of the
\* call whose answer produced that cursor; a cursor obtained under one page
\* size is not sent with another.
C21_CursorKeepsPageSize ==
  \A i \in 1..Len(log) :
    CarriesToken(i)
      => /\ log[i].cursor.pp = log[i].pp
         /\ \E j \in 1..Len(log) :
              /\ Produced(j, i)
              /\ log[j].coll = log[i].coll
              /\ log[j].pp = log[i].pp

C21_Witness ==
  /\ req.facade = "authors" /\ req.retriveAllPages
  /\ req.page = 3 /\ req.perPage = 1 /\ n = 2 * DrainPageSize + 50
  /\ Len(log) = 5 /\ AllOK
  /\ log[2] = Request("resolve", "authors", Token(1, 1), 1, "")
  /\ log[3] = Request("first", "authors", Star, DrainPageSize, "")
  /\ log[5] = Request("next", "authors", Token(2 * DrainPageSize, DrainPageSize),
                      DrainPageSize, "")

====
